---- MODULE Spec2Model ----
(***************************************************************************)
(* Model of the LLM conversation gateway of concordia-ai (src/ai/llm.py):  *)
(* get_model, Stub.make_response, and the OpenAI adapter (api_key,         *)
(* max_tokens, _count_token, _truncate_history, make_response).            *)
(*                                                                         *)
(* A text is abstracted by the number of tokens the reference encoding     *)
(* splits it into.  A Python call either returns a value or raises; both   *)
(* outcomes are values of the model (Ok / Raise).  make_response is a      *)
(* generator: the consumer drives it with next() and may close it.         *)
(***************************************************************************)
EXTENDS Integers, Sequences, FiniteSets, TLC

\* ---------------------------------------------------------------- bounds
\* longest caller history that is enumerated
MaxHist == 2
\* longest text, in tokens
MaxTok == 2
\* longest provider stream, in incremental units
MaxStream == 2

\* ------------------------------------------------------ program constants
\* llm.py:81  tokens_per_message = 3
tokens_per_message == 3
\* llm.py:83  priming = 3
priming == 3
\* llm.py:58  getattr(conf.settings, "OPENAI_MAX_TOKENS", 8_000)
DefaultMaxTokens == 8000
\* llm.py:113 timeout=60 * 4
ClientTimeout == 60 * 4

\* ------------------------------------------------------ outcomes of a call
Ok(v) == [raised |-> FALSE, exc |-> "", val |-> v]
Raise(e) == [raised |-> TRUE, exc |-> e, val |-> <<>>]

\* ---------------------------------------------------------------- inputs
Texts == 0..MaxTok
\* history alternates user / assistant, oldest first
RoleAt(i) == IF i % 2 = 1 THEN "user" ELSE "assistant"
Message(role, content) == [role |-> role, content |-> content]
HistoryOf(texts) == [i \in 1..Len(texts) |-> Message(RoleAt(i), texts[i])]
SeqsUpTo(S, n) == UNION {[1..k -> S] : k \in 0..n}
Histories == {HistoryOf(t) : t \in SeqsUpTo(Texts, MaxHist)}

\* an incremental unit of the provider stream, by its text delta:
\* "<none>" is an absent delta, "" an empty one
NoDelta == "<none>"
Deltas == {NoDelta, "", "a", "b"}
Streams == SeqsUpTo(Deltas, MaxStream)

\* ------------------------------------------------------------- settings
\* an attribute of conf.settings is either absent or has a value
Absent == [set |-> FALSE, val |-> 0]
Present(v) == [set |-> TRUE, val |-> v]
\* the OPENAI_MAX_TOKENS values that are enumerated
SetBudgets == {10, 14, 18}
ModelNames == {"Stub", "OpenAI", "Other"}
Settings ==
    [LLM_MODEL : {"<unset>"} \cup ModelNames,
     OPENAI_KEY : {"<unset>", "sk-key"},
     OPENAI_MAX_TOKENS : {Absent} \cup {Present(b) : b \in SetBudgets}]

\* the encodings tiktoken ships, and the name llm.py:78 asks for
StockEncodings == {"gpt2", "r50k_base", "p50k_base", "p50k_edit", "cl100k_base", "o200k_base"}
RequestedEncoding == "cli100k_base"

VARIABLES
    settings,   \* django conf.settings, read-only after start
    registry,   \* encoding names tiktoken can resolve in this process
    adapter,    \* what get_model returned ("unresolved" before the call)
    pc,         \* position of the make_response generator
    context,    \* the call's context text
    history,    \* the caller's history list
    hist0,      \* the caller's history list as it was at the call
    prompt,     \* the call's prompt text
    provider,   \* the units the provider would stream for this call
    pos,        \* units of provider consumed so far
    chunks,     \* the chunks yielded to the consumer so far
    exc,        \* the exception that ended the generator, "" if none
    clients,    \* openai.Client objects constructed
    requests,   \* chat-completion requests sent, with their messages
    trimmed     \* outcome of _truncate_history in this call

vars == <<settings, registry, adapter, pc, context, history, hist0, prompt,
          provider, pos, chunks, exc, clients, requests, trimmed>>

NotCalled == [raised |-> FALSE, exc |-> "<not called>", val |-> <<>>, caller |-> <<>>]

\* ------------------------------------------------------------ get_model
\* llm.py:19-26: the adapter for conf.settings.LLM_MODEL (default "Stub");
\* an unrecognized value falls off the end of the function: None
get_model(s) ==
    LET model == IF s.LLM_MODEL = "<unset>" THEN "Stub" ELSE s.LLM_MODEL
    IN  IF model = "Stub" THEN "Stub"
        ELSE IF model = "OpenAI" THEN "OpenAI"
        ELSE "None"

\* ------------------------------------------------------- OpenAI properties
\* llm.py:54-58
max_tokens(s) ==
    IF s.OPENAI_MAX_TOKENS.set THEN s.OPENAI_MAX_TOKENS.val ELSE DefaultMaxTokens

\* api_key with a default instead of the raise: getattr(settings, "OPENAI_KEY", "")
api_key_defaulted(s) ==
    IF s.OPENAI_KEY # "<unset>" THEN Ok(s.OPENAI_KEY) ELSE Ok("")

\* llm.py:66-73
api_key(s) ==
    IF s.OPENAI_KEY # "<unset>" THEN Ok(s.OPENAI_KEY)
    ELSE Raise("ValueError: Missing OPENAI_KEY in settings!")

\* ------------------------------------------------------------ _count_token
\* tiktoken.get_encoding(name): the encoding, or ValueError for an unknown name
get_encoding(name, reg) ==
    IF name \in reg THEN Ok(name) ELSE Raise("ValueError: Unknown encoding")

\* encoding.encode(text): the tokens of a text
encode(text) == [i \in 1..text |-> "tok"]

\* Python values that take part in the arithmetic of _count_token
PyInt(n) == [type |-> "int", int |-> n, items |-> <<>>]
PyGenerator(items) == [type |-> "generator", int |-> 0, items |-> items]

\* a + b (llm.py:86-87): defined on two ints; a generator has no __add__
\* and an int no __radd__ for it
PyAdd(a, b) ==
    IF a.type = "int" /\ b.type = "int" THEN Ok(PyInt(a.int + b.int))
    ELSE Raise("TypeError: unsupported operand type(s) for +")

RECURSIVE SumSeq(_)
SumSeq(q) == IF Len(q) = 0 THEN 0 ELSE q[1] + SumSeq(Tail(q))

\* sum(x) (llm.py:85): the sum of an iterable of ints; an int is not iterable
PySum(x) ==
    IF x.type = "generator" THEN Ok(SumSeq(x.items))
    ELSE Raise("TypeError: object is not iterable")

\* llm.py:85-88: the argument of sum is (generator expression) + priming
CountExpr(encoding, messages) ==
    LET gen == PyGenerator([i \in 1..Len(messages) |->
                   tokens_per_message + Len(encode(messages[i].content))])
        arg == PyAdd(gen, PyInt(priming))
    IN  IF arg.raised THEN arg ELSE PySum(arg.val)

\* llm.py:75-88
_count_token(messages, reg) ==
    LET encoding == get_encoding(RequestedEncoding, reg)
    IN  IF encoding.raised THEN encoding ELSE CountExpr(encoding.val, messages)

\* -------------------------------------------------------- _truncate_history
\* The outcome of a call that also reports the caller's list after it.
Returned(v, callerList) == [raised |-> FALSE, exc |-> "", val |-> v, caller |-> callerList]
Raised(e, callerList) == [raised |-> TRUE, exc |-> e, val |-> <<>>, caller |-> callerList]

\* llm.py:102-108: the while loop.  messages is the list built once at
\* llm.py:100 (list + list makes a new list), trimmed_history the working
\* copy that pop(0) shortens, callerList the caller's own list.
RECURSIVE TruncateLoop(_, _, _, _, _)
TruncateLoop(messages, trimmed_history, callerList, budget, reg) ==
    LET n == _count_token(messages, reg)
    IN  IF n.raised THEN Raised(n.exc, callerList)
        ELSE IF n.val >= budget
             THEN IF Len(trimmed_history) = 0
                  THEN Returned(<<>>, callerList)
                  ELSE TruncateLoop(messages, Tail(trimmed_history), callerList, budget, reg)
             ELSE Returned(trimmed_history, callerList)

\* _truncate_history working on the caller's own list (no history[:] copy),
\* with the oldest entry popped before the first count
truncate_history_in_place(ctx, hist, prm, budget, reg) ==
    LET system_msg == Message("system", ctx)
        user_msg == Message("user", prm)
        popped == IF Len(hist) = 0 THEN hist ELSE Tail(hist)
        messages == <<system_msg>> \o popped \o <<user_msg>>
    IN  TruncateLoop(messages, popped, popped, budget, reg)

\* llm.py:90-108
_truncate_history(ctx, hist, prm, budget, reg) ==
    LET system_msg == Message("system", ctx)
        user_msg == Message("user", prm)
        trimmed_history == hist
        messages == <<system_msg>> \o trimmed_history \o <<user_msg>>
    IN  TruncateLoop(messages, trimmed_history, hist, budget, reg)

\* ------------------------------------------------------------ the generators
\* llm.py:125-126: the delta of a unit is yielded when present and non-empty
Yieldable(delta) == delta # NoDelta /\ delta # ""

\* llm.py:120-127: from position p of the stream, the position of the next
\* unit that is yielded, or Len(stream) + 1 when the stream ends first
RECURSIVE NextYield(_, _)
NextYield(stream, p) ==
    IF p > Len(stream) THEN p
    ELSE IF Yieldable(stream[p]) THEN p
    ELSE NextYield(stream, p + 1)

\* llm.py:120-127: the loop over the stream runs to its next yield, or to
\* the end of the stream and of the generator
StreamStep ==
    LET q == NextYield(provider, pos + 1)
    IN  IF q > Len(provider)
        THEN /\ pc' = "done"
             /\ pos' = Len(provider)
             /\ chunks' = chunks
        ELSE /\ pc' = "streaming"
             /\ pos' = q
             /\ chunks' = Append(chunks, provider[q])

\* llm.py:110-124: the body of OpenAI.make_response up to its first yield
OpenAIStart ==
    LET key == api_key(settings)
    IN  IF key.raised
        THEN /\ pc' = "raised"
             /\ exc' = key.exc
             /\ UNCHANGED <<history, pos, chunks, clients, requests, trimmed>>
        ELSE LET t == _truncate_history(context, history, prompt,
                                        max_tokens(settings), registry)
             IN  /\ clients' = Append(clients, [api_key |-> key.val, timeout |-> ClientTimeout])
                 /\ trimmed' = t
                 /\ history' = t.caller
                 /\ IF t.raised
                    THEN /\ pc' = "raised"
                         /\ exc' = t.exc
                         /\ UNCHANGED <<pos, chunks, requests>>
                    ELSE /\ requests' = Append(requests,
                                <<Message("system", context)>> \o t.val
                                    \o <<Message("user", prompt)>>)
                         /\ exc' = exc
                         /\ StreamStep

\* Stub.make_response with its two yields in the other order
StubStepSwapped ==
    /\ pc' = CASE pc = "created" -> "yield1"
              [] pc = "yield1" -> "yield2"
              [] OTHER -> "done"
    /\ chunks' = CASE pc = "created" -> Append(chunks, "World!")
                  [] pc = "yield1" -> Append(chunks, "Hello ")
                  [] OTHER -> chunks
    /\ UNCHANGED <<history, pos, exc, clients, requests, trimmed>>

\* llm.py:45-50: the body of Stub.make_response
StubStep ==
    /\ pc' = CASE pc = "created" -> "yield1"
              [] pc = "yield1" -> "yield2"
              [] OTHER -> "done"
    /\ chunks' = CASE pc = "created" -> Append(chunks, "Hello ")
                  [] pc = "yield1" -> Append(chunks, "World!")
                  [] OTHER -> chunks
    /\ UNCHANGED <<history, pos, exc, clients, requests, trimmed>>

Suspended == {"created", "yield1", "yield2", "streaming"}

\* ---------------------------------------------------------------- actions
Init ==
    /\ settings \in Settings
    /\ registry \in {StockEncodings, StockEncodings \cup {RequestedEncoding}}
    /\ adapter = "unresolved"
    /\ pc = "idle"
    /\ context = 0
    /\ history = <<>>
    /\ hist0 = <<>>
    /\ prompt = 0
    /\ provider = <<>>
    /\ pos = 0
    /\ chunks = <<>>
    /\ exc = ""
    /\ clients = <<>>
    /\ requests = <<>>
    /\ trimmed = NotCalled

\* llm.py:19-26
GetModel ==
    /\ adapter = "unresolved"
    /\ adapter' = get_model(settings)
    /\ UNCHANGED <<settings, registry, pc, context, history, hist0, prompt,
                   provider, pos, chunks, exc, clients, requests, trimmed>>

\* llm.py:46, llm.py:110: calling a generator function makes the generator
\* and runs none of its body
MakeResponse ==
    /\ pc = "idle"
    /\ adapter \in {"Stub", "OpenAI"}
    /\ \E c \in Texts, h \in Histories, p \in Texts :
          /\ context' = c
          /\ history' = h
          /\ hist0' = h
          /\ prompt' = p
    /\ provider' \in (IF adapter = "OpenAI" THEN Streams ELSE {<<>>})
    /\ pc' = "created"
    /\ UNCHANGED <<settings, registry, adapter, pos, chunks, exc, clients,
                   requests, trimmed>>

\* next() on the generator: its body runs to the next yield, return or raise
ConsumerNext ==
    /\ pc \in Suspended
    /\ IF adapter = "Stub" THEN StubStep
       ELSE IF pc = "created" THEN OpenAIStart
       ELSE /\ StreamStep
            /\ UNCHANGED <<history, exc, clients, requests, trimmed>>
    /\ UNCHANGED <<settings, registry, adapter, context, hist0, prompt, provider>>

\* close() on the generator, or the consumer dropping it: GeneratorExit is
\* raised at the yield it is suspended at, and no handler or finally runs
ConsumerClose ==
    /\ pc \in Suspended
    /\ pc' = "closed"
    /\ UNCHANGED <<settings, registry, adapter, context, history, hist0, prompt,
                   provider, pos, chunks, exc, clients, requests, trimmed>>

Next == GetModel \/ MakeResponse \/ ConsumerNext \/ ConsumerClose

Spec == Init /\ [][Next]_vars

\* ------------------------------------------------------ notions of the claims
\* The TokenCounter estimate the claims call count: priming, once, plus
\* tokens_per_message and the tokenized length of the content per message.
Estimate(messages) ==
    priming + SumSeq([i \in 1..Len(messages) |->
                        tokens_per_message + messages[i].content])

\* [system(context)] ++ R ++ [user(prompt)] of the call in progress
Candidate(R) == <<Message("system", context)>> \o R \o <<Message("user", prompt)>>

\* R fits: its candidate set counts strictly less than the budget
Fits(R) == Estimate(Candidate(R)) < max_tokens(settings)

\* H with its k oldest entries removed
DropOldest(H, k) == SubSeq(H, k + 1, Len(H))
IsSuffix(R, H) == \E k \in 0..Len(H) : R = DropOldest(H, k)

\* _truncate_history has been called in this call of make_response
TruncateCalled == trimmed.exc # "<not called>"
KeySet == settings.OPENAI_KEY # "<unset>"
Terminated == pc \in {"done", "raised"}

\* ------------------------------------------------------------------ claims
\* C1: the result R of _truncate_history fits strictly under the budget, or
\* R is empty and the original history was non-empty.
C1_ResultFitsOrEmpty ==
    TruncateCalled =>
        /\ ~trimmed.raised
        /\ \/ Fits(trimmed.val)
           \/ (trimmed.val = <<>> /\ hist0 # <<>>)

\* C2: _truncate_history returns the longest suffix of the history that
\* fits, whenever some suffix fits.
C2_LongestFittingSuffix ==
    (TruncateCalled /\ \E k \in 0..Len(hist0) : Fits(DropOldest(hist0, k))) =>
        /\ ~trimmed.raised
        /\ IsSuffix(trimmed.val, hist0)
        /\ Fits(trimmed.val)
        /\ \A k \in 0..Len(hist0) :
              Fits(DropOldest(hist0, k)) => Len(trimmed.val) >= Len(hist0) - k

\* C3: the result of _truncate_history is the history with some number
\* k >= 0 of its oldest entries removed, the kept entries in their order.
C3_ResultIsSuffix ==
    TruncateCalled => (~trimmed.raised /\ IsSuffix(trimmed.val, hist0))

\* C4: truncation is idempotent: a history that is already truncated and
\* fits is returned unchanged by _truncate_history under the same budget.
C4_FittingReturnedUnchanged ==
    (TruncateCalled /\ Fits(hist0)) =>
        (~trimmed.raised /\ trimmed.val = hist0)

\* C5: the caller's history list is never mutated by the OpenAI adapter:
\* at every point of a call it has the length and the elements, in order,
\* that it had when the call was made.
C5_CallerHistoryUnchanged ==
    adapter = "OpenAI" => history = hist0

\* C5 witness: a call with a non-empty history has run _truncate_history
\* and ended, and the caller's list is as it was.
C5_Witness ==
    /\ adapter = "OpenAI" /\ TruncateCalled /\ Terminated
    /\ Len(hist0) = MaxHist /\ history = hist0

\* C6: with the OpenAI adapter selected and OPENAI_KEY missing, no chunk is
\* yielded, no client is constructed and no request is sent, and the first
\* resumption of the generator ends it with the configuration failure.
C6_MissingKeyFailsFirst ==
    (adapter = "OpenAI" /\ ~KeySet) =>
        /\ chunks = <<>> /\ clients = <<>> /\ requests = <<>>
        /\ ~TruncateCalled
        /\ pc \in {"idle", "created", "closed", "raised"}
        /\ pc = "raised" => exc = "ValueError: Missing OPENAI_KEY in settings!"

\* C6 witness: such a call has been resumed and has failed.
C6_Witness ==
    adapter = "OpenAI" /\ ~KeySet /\ pc = "raised" /\ Len(hist0) > 0

\* C7: the chunks yielded by OpenAI.make_response are exactly the units of
\* the provider stream whose delta is present and non-empty, in receipt
\* order.
C7_ChunksAreNonEmptyDeltas ==
    (adapter = "OpenAI" /\ KeySet /\ Terminated) =>
        chunks = SelectSeq(provider, Yieldable)

\* C9: Stub.make_response yields "Hello " then "World!" and then ends,
\* whatever the inputs; it never fails, constructs no client, sends no
\* request and leaves the caller's history as it was.
C9_StubFixedSequence ==
    adapter = "Stub" =>
        /\ pc # "raised" /\ exc = ""
        /\ history = hist0 /\ clients = <<>> /\ requests = <<>>
        /\ pc \in {"idle", "created"} => chunks = <<>>
        /\ pc = "yield1" => chunks = <<"Hello ">>
        /\ pc \in {"yield2", "done"} => chunks = <<"Hello ", "World!">>
        /\ pc = "closed" =>
              chunks \in {<<>>, <<"Hello ">>, <<"Hello ", "World!">>}

\* C9 witness: a Stub call with a non-empty history and non-empty texts
\* has run to its end.
C9_Witness ==
    /\ adapter = "Stub" /\ pc = "done"
    /\ Len(hist0) > 0 /\ context > 0 /\ prompt > 0
    /\ chunks = <<"Hello ", "World!">>

\* C10: _count_token returns, without raising, priming plus the sum over
\* the messages of tokens_per_message and the tokenized content length,
\* for every list of messages, the empty list included.
C10_CountIsEstimate ==
    pc # "idle" =>
        \A msgs \in {<<>>, Candidate(hist0)} :
            LET n == _count_token(msgs, registry)
            IN  ~n.raised /\ n.val = Estimate(msgs)
====
